---- MODULE Spec2Model ----
(***************************************************************************)
(* Job orchestration engine of yt-media-converter (src/server.js).         *)
(*                                                                         *)
(* The registry is the Map `jobs`; every job object is created once by     *)
(* POST /api/prepare under a fresh uuid and is afterwards shared by        *)
(* reference between the Map and the closures of performConversion.        *)
(* `heap[id]` holds the fields of that object, `jobs` holds the keys that  *)
(* are in the Map at the moment (jobs.get(id) is heap[id] whenever id is   *)
(* a key, because only that object is ever stored under it).               *)
(*                                                                         *)
(* `now` is the clock in milliseconds as the retention code reads it       *)
(* (createdAt, completedAt, the sweep's cutoff).  It advances by the sweep *)
(* horizon of one hour, and by one millisecond when a job is exactly at    *)
(* the cutoff.  Within one value of `now`, the Date.now() readings that    *)
(* name the output files are numbered in the order in which they differ:   *)
(* two calls of performConversion read the same millisecond or two         *)
(* different ones.  Every timer of the program has a delay below one hour: *)
(* its callback runs at some point before an hour passes, and callbacks    *)
(* run in the order in which they fall due.                                *)
(* progress is held in tenths (x10), because the code computes             *)
(* parseInt(p) * 0.7, which is not an integer in general.                  *)
(***************************************************************************)
EXTENDS Integers, Sequences, FiniteSets, TLC

\* ---------------------------------------------------------------- bounds
MaxJobs == 1
MaxConversions == 2
MaxChunks == 1
MaxDownloads == 1
MaxRetries == 2
MaxSweptJobs == 2
MaxProbes == 2
MaxTicks == 1
MaxHours == 1

\* ------------------------------------------------------ program constants
CleanupMaxAgeMs == 3600000
DownloadCleanupDelayMs == 5000
MetadataTimeoutMs == 30000

JobIds == 1..MaxJobs

\* JobStatus enum
QUEUED == "queued"
DOWNLOADING == "downloading"
CONVERTING == "converting"
READY == "ready"
ERROR == "error"
JobStatus == {QUEUED, DOWNLOADING, CONVERTING, READY, ERROR}

Formats == {"mp3", "mp4"}

\* extensions the external tool may give to the file it writes
ToolExts == {"mp3"}
NoExt == "none"
\* the wider choice of the artifact specification: a requested extension, two
\* other candidates of the close handler, and one that is no candidate
ArtifactExts == {"mp3", "mp4", "webm", "mkv"}

\* exit codes of the external tool; 1 stands for every code that is not 0,
\* the null code of a process ended by a signal included
ExitCodes == {0, 1}

Titles == {"Big_Buck_Bunny"}

\* progress values of the code, in tenths
P10 == 100
P70 == 700
P80 == 800
P100 == 1000

NoDate == -1
NoPct == -1
NullPath == [title |-> "", ts |-> <<NoDate, 0>>, ext |-> ""]
NullError == [msg |-> "null", text |-> <<>>]
\* the slot of an id for which no job object was created yet
NoJob == [id |-> 0, url |-> "", metadata |-> [title |-> ""], status |-> "",
          progress |-> 0, createdAt |-> NoDate, outputPath |-> NullPath,
          error |-> NullError, completedAt |-> NoDate]

\* A chunk of diagnostic output, described by what the handler looks at:
\* marker  = output.includes('[download]')
\* hundred = output.includes('100%')
\* pct     = the first token matched by /(\d+(?:\.\d+)?)%/, in tenths
\* blank   = the chunk is whitespace only
LogLine == [name |-> "random log line", marker |-> FALSE, hundred |-> FALSE, pct |-> NoPct, blank |-> FALSE]
Pct452 == [name |-> "[download] 45.2%", marker |-> TRUE, hundred |-> FALSE, pct |-> 452, blank |-> FALSE]
Pct100 == [name |-> "[download] 100% of 3MiB", marker |-> TRUE, hundred |-> TRUE, pct |-> 1000, blank |-> FALSE]
Chunks == {LogLine, Pct452, Pct100}
\* more of what the stream carries: a download line without a percentage, and
\* a percentage on a line that is no download line
Destination == [name |-> "[download] Destination: Big_Buck_Bunny.webm", marker |-> TRUE, hundred |-> FALSE, pct |-> NoPct, blank |-> FALSE]
WarningPct == [name |-> "WARNING: retrying fragment (25%)", marker |-> FALSE, hundred |-> FALSE, pct |-> 250, blank |-> FALSE]
ProgressChunks == Chunks \cup {Destination, WarningPct}

Max(a, b) == IF a >= b THEN a ELSE b
Min(a, b) == IF a <= b THEN a ELSE b

VARIABLES now, heap, jobs, conversions, files, downloads, refusal, probes,
          script, page

vars == <<now, heap, jobs, conversions, files, downloads, refusal, probes,
         script, page>>

ConvIds == 1..Len(conversions)
DownloadIds == 1..Len(downloads)

\* refusal is the last error answer of a route.
NoRefusal == [route |-> "none", status |-> 0, error |-> ""]

\* What a request can carry: an id that was never issued, a format the
\* server does not know.
UnknownId == 0
RequestIds == JobIds \cup {UnknownId}
RequestFormats == Formats \cup {"webm"}

\* script is the run of scripts/cleanup.js, page the YouTubeConverter object of
\* the browser page with its DOM; neither runs next to the server's actions.
NoScript == [pc |-> "none"]
NoPage == [pc |-> "none"]

\* fs.existsSync(file)
ExistsSync(file) == file \in files

Init ==
    /\ now = 0
    /\ heap = [j \in JobIds |-> NoJob]
    /\ jobs = {}
    /\ conversions = <<>>
    /\ files = {}
    /\ downloads = <<>>
    /\ refusal = NoRefusal
    /\ probes = <<>>
    /\ script = NoScript
    /\ page = NoPage

\* The job POST /api/prepare creates once the metadata is there: uuidv4() is
\* a key that was never used before.
CreateJob(jobId, url, title) ==
    /\ heap[jobId] = NoJob
    /\ \A k \in DOMAIN heap : k < jobId => heap[k] # NoJob
    /\ heap' = [heap EXCEPT ![jobId] =
                  [id |-> jobId, url |-> url, metadata |-> [title |-> title],
                   status |-> QUEUED, progress |-> 0, createdAt |-> now,
                   outputPath |-> NullPath, error |-> NullError,
                   completedAt |-> NoDate]]
    /\ jobs' = jobs \cup {jobId}

\* A prepare that replaces the registry by the new entry.
PrepareClearsRegistry(jobId, title) ==
    /\ heap[jobId] = NoJob
    /\ \A k \in JobIds : k < jobId => heap[k] # NoJob
    /\ heap' = [heap EXCEPT ![jobId] =
                  [id |-> jobId, url |-> "source-A", metadata |-> [title |-> title],
                   status |-> QUEUED, progress |-> 0, createdAt |-> now,
                   outputPath |-> NullPath, error |-> NullError,
                   completedAt |-> NoDate]]
    /\ jobs' = {jobId}
    /\ UNCHANGED <<now, conversions, files, downloads, refusal, probes, script, page>>

\* POST /api/prepare with a valid url whose metadata fetch succeeds
Prepare(jobId, title) ==
    /\ CreateJob(jobId, "source-A", title)
    /\ UNCHANGED <<now, conversions, files, downloads, refusal, probes, script, page>>

\* The Date.now() readings performConversion can get: a millisecond of its
\* own, or the millisecond of the latest call when that one is still running
\* (no process is spawned and closed within one millisecond).
Readings ==
    {Len(conversions)} \cup
    (IF conversions # <<>> /\ conversions[Len(conversions)].proc = "running"
         /\ conversions[Len(conversions)].outputPath.ts[1] = now
     THEN {conversions[Len(conversions)].outputPath.ts[2]}
     ELSE {})

\* outputPath of performConversion: sanitizeFilename(title_Date.now()).format
OutputPath(job, format, ms) ==
    [title |-> job.metadata.title, ts |-> <<now, ms>>, ext |-> format]

\* The answer of POST /api/convert to a request: the early returns of the
\* route, in their order, or 200.
ConvertStatusAnyFormat(jobId, format) ==
    IF jobId \notin jobs
    THEN [route |-> "convert", status |-> 404, error |-> "Job not found"]
    ELSE [route |-> "convert", status |-> 200, error |-> ""]

ConvertStatus(jobId, format) ==
    IF jobId \notin jobs
    THEN [route |-> "convert", status |-> 404, error |-> "Job not found"]
    ELSE IF format \notin Formats
         THEN [route |-> "convert", status |-> 400, error |-> "Invalid format. Use mp3 or mp4"]
         ELSE [route |-> "convert", status |-> 200, error |-> ""]

\* POST /api/convert that ends in an early return: nothing but the answer
ConvertRejected(jobId, format) ==
    /\ ConvertStatus(jobId, format).status # 200
    /\ refusal' = ConvertStatus(jobId, format)
    /\ UNCHANGED <<now, heap, jobs, conversions, files, downloads, probes, script, page>>

\* A convert that keeps the progress a job has already reached.
ConvertKeepsProgress(jobId, format, ms) ==
    /\ ConvertStatus(jobId, format).status = 200
    /\ ms \in Readings
    /\ Len(conversions) < MaxConversions
    /\ heap' = [heap EXCEPT ![jobId].status = DOWNLOADING,
                            ![jobId].progress = Max(@, P10)]
    /\ jobs' = jobs \cup {jobId}
    /\ conversions' = Append(conversions,
          [jobId |-> jobId, format |-> format,
           outputPath |-> OutputPath(heap[jobId], format, ms),
           proc |-> "running", killed |-> FALSE,
           timer |-> "pending",
           stderr |-> <<>>, promise |-> "pending", finals |-> <<>>])
    /\ UNCHANGED <<now, files, downloads, refusal, probes, script, page>>

\* POST /api/convert, with the synchronous part of performConversion.
Convert(jobId, format, ms) ==
    /\ ConvertStatus(jobId, format).status = 200
    /\ ms \in Readings
    /\ Len(conversions) < MaxConversions
    /\ heap' = [heap EXCEPT ![jobId].status = DOWNLOADING, ![jobId].progress = P10]
    /\ jobs' = jobs \cup {jobId}
    /\ conversions' = Append(conversions,
          [jobId |-> jobId, format |-> format,
           outputPath |-> OutputPath(heap[jobId], format, ms),
           proc |-> "running", killed |-> FALSE,
           timer |-> "pending",
           stderr |-> <<>>, promise |-> "pending", finals |-> <<>>])
    /\ UNCHANGED <<now, files, downloads, refusal, probes, script, page>>

\* Scaled progress of a percentage token: Math.min(70, parseInt(match[1]) * 0.7)
ParseInt(tenths) == tenths \div 10
ScaledProgress(pct) == Min(P70, ParseInt(pct) * 7)

\* The stderr handler that stores the scaled percentage without comparing it
\* with the current progress.
StderrJobOverwrites(job, output) ==
    IF output.marker
    THEN IF output.hundred
         THEN [job EXCEPT !.status = CONVERTING, !.progress = P80]
         ELSE IF output.pct # NoPct
              THEN [job EXCEPT !.progress = ScaledProgress(output.pct)]
              ELSE job
    ELSE job

\* The stderr handler that looks for a percentage in every chunk.
StderrJobAnyChunk(job, output) ==
    IF output.hundred
    THEN [job EXCEPT !.status = CONVERTING, !.progress = P80]
    ELSE IF output.pct # NoPct
         THEN [job EXCEPT !.progress = Max(job.progress, ScaledProgress(output.pct))]
         ELSE job

\* Body of the stderr 'data' handler on the job object.
StderrJob(job, output) ==
    IF output.marker
    THEN IF output.hundred
         THEN [job EXCEPT !.status = CONVERTING, !.progress = P80]
         ELSE IF output.pct # NoPct
              THEN [job EXCEPT !.progress = Max(job.progress, ScaledProgress(output.pct))]
              ELSE job
    ELSE job

\* ytDlp.stderr.on('data'): the streams stay open until 'close'.
StderrData(c, output) ==
    /\ c \in ConvIds
    /\ output \in ProgressChunks
    /\ conversions[c].proc = "running"
    /\ Len(conversions[c].stderr) < MaxChunks
    /\ LET jobId == conversions[c].jobId IN
        /\ heap' = [heap EXCEPT ![jobId] = StderrJob(heap[jobId], output)]
        /\ jobs' = IF output.marker THEN jobs \cup {jobId} ELSE jobs
    /\ conversions' = [conversions EXCEPT ![c].stderr = Append(@, output)]
    /\ UNCHANGED <<now, files, downloads, refusal, probes, script, page>>

\* possibleFiles of the close handler, in order
PossibleFiles(outputPath) ==
    << outputPath,
       [outputPath EXCEPT !.ext = "mp3"],
       [outputPath EXCEPT !.ext = "mp4"],
       [outputPath EXCEPT !.ext = "webm"],
       [outputPath EXCEPT !.ext = "m4a"] >>

\* A lookup that takes the last existing candidate instead of the first.
ActualFileLast(outputPath, disk) ==
    LET pf == PossibleFiles(outputPath)
        hits == {k \in 1..Len(pf) : pf[k] \in disk}
    IN IF hits = {} THEN NullPath
       ELSE pf[CHOOSE k \in hits : \A m \in hits : k >= m]

\* possibleFiles.find(file => fs.existsSync(file)); NullPath when none exists
\* (disk is the content of the temp directory when the handler runs)
ActualFile(outputPath, disk) ==
    LET pf == PossibleFiles(outputPath)
        hits == {k \in 1..Len(pf) : pf[k] \in disk}
    IN IF hits = {} THEN NullPath
       ELSE pf[CHOOSE k \in hits : \A m \in hits : k <= m]

\* stderr.trim(): leading and trailing whitespace-only chunks dropped
RECURSIVE TrimLeft(_)
TrimLeft(text) ==
    IF text = <<>> THEN <<>>
    ELSE IF Head(text).blank THEN TrimLeft(Tail(text)) ELSE text

RECURSIVE TrimRight(_)
TrimRight(text) ==
    IF text = <<>> THEN <<>>
    ELSE IF text[Len(text)].blank THEN TrimRight(SubSeq(text, 1, Len(text) - 1)) ELSE text

Trim(text) == TrimRight(TrimLeft(text))

\* stderr.trim() || 'Unknown conversion error'
StderrError(text) ==
    IF Trim(text) = <<>> THEN [msg |-> "Unknown conversion error", text |-> <<>>]
    ELSE [msg |-> "stderr", text |-> Trim(text)]

\* first settlement of the promise wins
Settle(promise, outcome) == IF promise = "pending" THEN outcome ELSE promise

\* The close handler with a non-zero branch that records the diagnostic but
\* leaves the status as it is.
CloseJobKeepsStatus(job, code, actualFile, stderr) ==
    IF code = 0
    THEN IF actualFile # NullPath
         THEN [job EXCEPT !.status = READY, !.progress = P100,
                          !.outputPath = actualFile, !.completedAt = now]
         ELSE [job EXCEPT !.status = ERROR,
                          !.error = [msg |-> "Output file not generated", text |-> <<>>]]
    ELSE [job EXCEPT !.error = StderrError(stderr)]

\* Body of the 'close' handler on the job object; code # 0 stands for every
\* non-zero exit code and for the null code of a process ended by a signal.
CloseJob(job, code, actualFile, stderr) ==
    IF code = 0
    THEN IF actualFile # NullPath
         THEN [job EXCEPT !.status = READY, !.progress = P100,
                          !.outputPath = actualFile, !.completedAt = now]
         ELSE [job EXCEPT !.status = ERROR,
                          !.error = [msg |-> "Output file not generated", text |-> <<>>]]
    ELSE [job EXCEPT !.status = ERROR, !.error = StderrError(stderr)]

CloseFinal(code, actualFile) ==
    IF code = 0 THEN IF actualFile # NullPath THEN "success" ELSE "missing"
    ELSE "nonzero"

\* What the external tool leaves on disk when it ends: nothing, or the file
\* <outputPath without extension>.<ext> for an extension of its choice.
ToolOutput(outputPath, ext) ==
    IF ext = NoExt THEN {} ELSE {[outputPath EXCEPT !.ext = ext]}

\* ytDlp.on('close'): the process has ended with exit code `code`, having
\* written ToolOutput; the handler then looks for the file.  It is the last
\* reader of stderr and outputPath, which the model forgets afterwards.
Close(c, code, ext) ==
    /\ c \in ConvIds
    /\ code \in ExitCodes
    /\ ext \in ArtifactExts \cup {NoExt}
    /\ conversions[c].proc = "running"
    /\ files' = files \cup ToolOutput(conversions[c].outputPath, ext)
    /\ LET jobId == conversions[c].jobId
           actualFile == ActualFile(conversions[c].outputPath,
                                    files \cup ToolOutput(conversions[c].outputPath, ext))
       IN
        /\ heap' = [heap EXCEPT ![jobId] =
                      CloseJob(heap[jobId], code, actualFile, conversions[c].stderr)]
        /\ jobs' = jobs \cup {jobId}
        /\ conversions' = [conversions EXCEPT
              ![c].proc = "closed",
              ![c].stderr = <<>>,
              ![c].outputPath = NullPath,
              ![c].promise = Settle(@, IF CloseFinal(code, actualFile) = "success"
                                       THEN "resolved" ELSE "rejected"),
              ![c].finals = Append(@, CloseFinal(code, actualFile))]
    /\ UNCHANGED <<now, downloads, refusal, probes, script, page>>

\* A timer callback that also stamps the job with the time of the failure.
TimeoutJobRestamps(job) ==
    [job EXCEPT !.status = ERROR,
                !.error = [msg |-> "Conversion timeout", text |-> <<>>],
                !.createdAt = now]

\* Body of the setTimeout callback on the job object.
TimeoutJob(job) ==
    [job EXCEPT !.status = ERROR,
                !.error = [msg |-> "Conversion timeout", text |-> <<>>]]

\* A timer callback that fails every job of the registry that has not ended.
TimeoutEveryJob(c) ==
    /\ c \in ConvIds
    /\ conversions[c].timer = "pending"
    /\ \A k \in ConvIds : k < c => conversions[k].timer # "pending"
    /\ \A d \in DownloadIds :
          downloads[d].state = "scheduled" => downloads[d].scheduledAfter >= c
    /\ heap' = [j \in DOMAIN heap |->
                  IF j = conversions[c].jobId
                     \/ (j \in jobs /\ heap[j].status \in {DOWNLOADING, CONVERTING})
                  THEN TimeoutJob(heap[j]) ELSE heap[j]]
    /\ jobs' = jobs \cup {conversions[c].jobId}
    /\ conversions' = [conversions EXCEPT
          ![c].timer = "fired",
          ![c].killed = (@ \/ conversions[c].proc = "running"),
          ![c].promise = Settle(@, "rejected"),
          ![c].finals = Append(@, "timeout")]
    /\ UNCHANGED <<now, files, downloads, refusal, probes, script, page>>

\* The 10 minute timer of performConversion; it is never cleared.  It falls
\* due after the 10 minute timers set before it and after the 5 second timers
\* that were set before it.
Timeout(c) ==
    /\ c \in ConvIds
    /\ conversions[c].timer = "pending"
    /\ \A k \in ConvIds : k < c => conversions[k].timer # "pending"
    /\ \A d \in DownloadIds :
          downloads[d].state = "scheduled" => downloads[d].scheduledAfter >= c
    /\ LET jobId == conversions[c].jobId IN
        /\ heap' = [heap EXCEPT ![jobId] = TimeoutJob(heap[jobId])]
        /\ jobs' = jobs \cup {jobId}
    /\ conversions' = [conversions EXCEPT
          ![c].timer = "fired",
          ![c].killed = (@ \/ conversions[c].proc = "running"),
          ![c].promise = Settle(@, "rejected"),
          ![c].finals = Append(@, "timeout")]
    /\ UNCHANGED <<now, files, downloads, refusal, probes, script, page>>

\* The answer of GET /api/download/:jobId: its two early returns, or 200.
DownloadStatusAnyStatus(jobId) ==
    IF jobId \notin jobs \/ heap[jobId].outputPath = NullPath
    THEN [route |-> "download", status |-> 404, error |-> "File not ready for download"]
    ELSE IF ~ExistsSync(heap[jobId].outputPath)
         THEN [route |-> "download", status |-> 404, error |-> "File not found"]
         ELSE [route |-> "download", status |-> 200, error |-> ""]

DownloadStatus(jobId) ==
    IF jobId \notin jobs \/ heap[jobId].outputPath = NullPath \/ heap[jobId].status # READY
    THEN [route |-> "download", status |-> 404, error |-> "File not ready for download"]
    ELSE IF ~ExistsSync(heap[jobId].outputPath)
         THEN [route |-> "download", status |-> 404, error |-> "File not found"]
         ELSE [route |-> "download", status |-> 200, error |-> ""]

\* GET /api/download/:jobId that ends in an early return
DownloadRejected(jobId) ==
    /\ DownloadStatus(jobId).status # 200
    /\ refusal' = DownloadStatus(jobId)
    /\ UNCHANGED <<now, heap, jobs, conversions, files, downloads, probes, script, page>>

\* GET /api/download/:jobId, up to fileStream.pipe(res); max bounds the
\* number of downloads of a behaviour
DownloadUpTo(jobId, max) ==
    /\ Len(downloads) < max
    /\ DownloadStatus(jobId).status = 200
    /\ downloads' = Append(downloads,
          [jobId |-> jobId, filePath |-> heap[jobId].outputPath,
           state |-> "streaming", scheduledAfter |-> 0, delay |-> 0])
    /\ UNCHANGED <<now, heap, jobs, conversions, files, refusal, probes, script, page>>

Download(jobId) == DownloadUpTo(jobId, MaxDownloads)

\* fileStream.on('end'): schedules the cleanup 5 seconds later
StreamEnd(d) ==
    /\ d \in DownloadIds
    /\ downloads[d].state = "streaming"
    /\ downloads' = [downloads EXCEPT ![d].state = "scheduled",
                                      ![d].scheduledAfter = Len(conversions),
                                      ![d].delay = DownloadCleanupDelayMs]
    /\ UNCHANGED <<now, heap, jobs, conversions, files, refusal, probes, script, page>>

\* The cleanup timer that forgets the job and leaves the file on the disk.
DeferredDeleteKeepsFile(d) ==
    /\ d \in DownloadIds
    /\ downloads[d].state = "scheduled"
    /\ \A k \in DownloadIds : k < d => downloads[k].state # "scheduled"
    /\ jobs' = jobs \ {downloads[d].jobId}
    /\ downloads' = [downloads EXCEPT ![d].state = "done"]
    /\ UNCHANGED <<now, heap, conversions, files, refusal, probes, script, page>>

\* the 5 second cleanup timer of a finished download
DeferredDelete(d) ==
    /\ d \in DownloadIds
    /\ downloads[d].state = "scheduled"
    /\ \A k \in DownloadIds : k < d => downloads[k].state # "scheduled"
    /\ files' = files \ {downloads[d].filePath}
    /\ jobs' = jobs \ {downloads[d].jobId}
    /\ downloads' = [downloads EXCEPT ![d].state = "done"]
    /\ UNCHANGED <<now, heap, conversions, refusal, probes, script, page>>

\* POST /api/cleanup
StaleJobs == {j \in jobs : heap[j].createdAt < now - CleanupMaxAgeMs}

\* cleanedJobs, the count the answer of the sweep reports
CleanedJobs == Cardinality(StaleJobs)

\* A sweep that deletes the artifacts and leaves the entries in the registry.
CleanupKeepsEntries ==
    /\ files' = files \ {heap[j].outputPath : j \in StaleJobs}
    /\ UNCHANGED <<now, heap, jobs, conversions, downloads, refusal, probes, script, page>>

Cleanup ==
    /\ files' = files \ {heap[j].outputPath : j \in StaleJobs}
    /\ jobs' = jobs \ StaleJobs
    /\ UNCHANGED <<now, heap, conversions, downloads, refusal, probes, script, page>>

\* POST /api/cleanup when fs.removeSync throws (EACCES, EPERM, EBUSY) on the
\* artifact of the stale entry `failing`: the loop has no try/catch, so the
\* exception leaves the handler and Express answers 500.  `removed` are the
\* stale entries the loop has handled before; the Map iterates in insertion
\* order, which the registry set does not keep, so it is any set of other
\* stale entries.  The failing entry and the ones after it stay.
CleanupThrows(failing, removed) ==
    /\ failing \in StaleJobs
    /\ heap[failing].outputPath # NullPath
    /\ ExistsSync(heap[failing].outputPath)
    /\ removed \subseteq StaleJobs \ {failing}
    /\ files' = files \ ({heap[j].outputPath : j \in removed} \ {heap[failing].outputPath})
    /\ jobs' = jobs \ removed
    /\ refusal' = [route |-> "cleanup", status |-> 500, error |-> "removeSync"]
    /\ UNCHANGED <<now, heap, conversions, downloads, probes, script, page>>

\* The url of a prepare request, as far as isValidYouTubeUrl looks at it:
\* scheme, optional "www.", site, path prefix and video id.  NoUrl is a request
\* without url.
NoUrl == [scheme |-> "", www |-> FALSE, host |-> "", path |-> "", id |-> ""]
WatchUrl == [scheme |-> "https", www |-> TRUE, host |-> "youtube.com",
             path |-> "watch?v=", id |-> "dQw4w9WgXcQ"]
Urls ==
    { NoUrl, WatchUrl,
      [WatchUrl EXCEPT !.scheme = "http", !.www = FALSE, !.path = "shorts/"],
      [WatchUrl EXCEPT !.host = "youtu.be", !.path = ""],
      [WatchUrl EXCEPT !.scheme = "ftp"],
      [WatchUrl EXCEPT !.host = "example.com"],
      [WatchUrl EXCEPT !.path = "playlist?list="],
      [WatchUrl EXCEPT !.id = ""] }

\* isValidYouTubeUrl: one of the two patterns matches
IsValidYouTubeUrl(url) ==
    /\ url.scheme \in {"http", "https"}
    /\ \/ <<url.host, url.path>> \in {<<"youtube.com", "watch?v=">>, <<"youtu.be", "">>,
                                      <<"youtube.com", "embed/">>, <<"youtube.com", "v/">>}
       \/ <<url.host, url.path>> = <<"youtube.com", "shorts/">>
    /\ url.id # ""

\* The answer of POST /api/prepare before the metadata fetch
PrepareStatus(url) ==
    IF url = NoUrl \/ ~IsValidYouTubeUrl(url)
    THEN [route |-> "prepare", status |-> 400, error |-> "Please provide a valid YouTube URL"]
    ELSE [route |-> "prepare", status |-> 200, error |-> ""]

\* POST /api/prepare that ends in the early return
PrepareRejected(url) ==
    /\ PrepareStatus(url).status # 200
    /\ refusal' = PrepareStatus(url)
    /\ UNCHANGED <<now, heap, jobs, conversions, files, downloads, probes, script, page>>

ProbeIds == 1..Len(probes)
NoOutcome == "pending"

\* POST /api/prepare up to the await: getVideoMetadata spawns the probe
\* process and sets its 30 s timer
GetVideoMetadata(url) ==
    /\ PrepareStatus(url).status = 200
    /\ Len(probes) < MaxProbes
    /\ probes' = Append(probes,
          [url |-> url, proc |-> "running", killed |-> FALSE,
           timer |-> "pending", delay |-> MetadataTimeoutMs,
           promise |-> "pending", outcome |-> NoOutcome])
    /\ UNCHANGED <<now, heap, jobs, conversions, files, downloads, refusal, script, page>>

\* What the probe's close handler passes to resolve or reject, with and
\* without its look at the exit code.
CloseOutcomeIgnoresCode(code, parseable) ==
    IF parseable THEN "metadata" ELSE "Failed to parse video metadata"

CloseOutcome(code, parseable) ==
    IF code = 0
    THEN IF parseable THEN "metadata" ELSE "Failed to parse video metadata"
    ELSE "Failed to fetch metadata"

\* The answer of the route's catch block
PrepareError(message) ==
    [route |-> "prepare", status |-> 500, error |-> message]

\* The rest of POST /api/prepare, which runs when the promise of
\* getVideoMetadata settles for the first time: the job is created, or the
\* catch block answers 500.  A later settlement is ignored by the promise.
Delivered(p, outcome, jobId, title) ==
    IF probes[p].promise # "pending"
    THEN UNCHANGED <<heap, jobs, refusal>>
    ELSE IF outcome = "metadata"
         THEN CreateJob(jobId, probes[p].url, title) /\ UNCHANGED refusal
         ELSE refusal' = PrepareError(outcome) /\ UNCHANGED <<heap, jobs>>

\* ytDlp.on('close') of getVideoMetadata: exit code, and whether stdout parses
\* as a JSON object
MetadataClose(p, code, parseable, jobId, title) ==
    /\ p \in ProbeIds
    /\ probes[p].proc = "running"
    /\ Delivered(p, CloseOutcome(code, parseable), jobId, title)
    /\ probes' = [probes EXCEPT
          ![p].proc = "closed",
          ![p].promise = Settle(@, IF CloseOutcome(code, parseable) = "metadata"
                                   THEN "resolved" ELSE "rejected"),
          ![p].outcome = IF probes[p].promise = "pending"
                         THEN CloseOutcome(code, parseable) ELSE @]
    /\ UNCHANGED <<now, conversions, files, downloads, script, page>>

\* A timer callback that passes its rejection on although the promise is
\* settled.
MetadataTimeoutOverrides(p) ==
    /\ p \in ProbeIds
    /\ probes[p].timer = "pending"
    /\ \A k \in ProbeIds : k < p => probes[k].timer # "pending"
    /\ refusal' = PrepareError("Metadata fetch timeout")
    /\ probes' = [probes EXCEPT
          ![p].timer = "fired",
          ![p].killed = (@ \/ probes[p].proc = "running"),
          ![p].promise = "rejected",
          ![p].outcome = "Metadata fetch timeout"]
    /\ UNCHANGED <<now, heap, jobs, conversions, files, downloads, script, page>>

\* The 30 s timer of getVideoMetadata, which is never cleared: ytDlp.kill()
\* and reject
MetadataTimeout(p) ==
    /\ p \in ProbeIds
    /\ probes[p].timer = "pending"
    /\ \A k \in ProbeIds : k < p => probes[k].timer # "pending"
    /\ Delivered(p, "Metadata fetch timeout", 0, "")
    /\ probes' = [probes EXCEPT
          ![p].timer = "fired",
          ![p].killed = (@ \/ probes[p].proc = "running"),
          ![p].promise = Settle(@, "rejected"),
          ![p].outcome = IF probes[p].promise = "pending"
                         THEN "Metadata fetch timeout" ELSE @]
    /\ UNCHANGED <<now, conversions, files, downloads, script, page>>

\* The answer of GET /api/status/:jobId: 404, or the job's status, progress
\* and error
StatusAnswer(jobId) ==
    IF jobId \notin jobs
    THEN [route |-> "status", status |-> 404, error |-> "Job not found"]
    ELSE [route |-> "status", status |-> 200, error |-> heap[jobId].error.msg,
          job |-> [status |-> heap[jobId].status, progress |-> heap[jobId].progress]]

\* GET /api/status/:jobId reads the registry and answers
Status(jobId) ==
    /\ refusal' = StatusAnswer(jobId)
    /\ UNCHANGED <<now, heap, jobs, conversions, files, downloads, probes, script, page>>

\* A timer is pending.
TimerPending ==
    \/ \E c \in ConvIds : conversions[c].timer = "pending"
    \/ \E d \in DownloadIds : downloads[d].state = "scheduled"

\* One millisecond passes while a job is exactly at the sweep's cutoff.
Tick ==
    /\ now % CleanupMaxAgeMs < MaxTicks
    /\ \E j \in jobs : heap[j].createdAt = now - CleanupMaxAgeMs
    /\ now' = now + 1
    /\ UNCHANGED <<heap, jobs, conversions, files, downloads, refusal, probes, script, page>>

\* One hour passes; no timer is still pending by then.
Advance ==
    /\ now \div CleanupMaxAgeMs < MaxHours
    /\ ~TimerPending
    /\ jobs # {}
    /\ now' = now + CleanupMaxAgeMs
    /\ UNCHANGED <<heap, jobs, conversions, files, downloads, refusal, probes, script, page>>

Next ==
    \/ \E jobId \in JobIds, title \in Titles : Prepare(jobId, title)
    \/ \E jobId \in JobIds, format \in Formats, ms \in Readings : Convert(jobId, format, ms)
    \/ \E c \in ConvIds, output \in Chunks : StderrData(c, output)
    \/ \E c \in ConvIds, code \in ExitCodes, ext \in ToolExts \cup {NoExt} : Close(c, code, ext)
    \/ \E c \in ConvIds : Timeout(c)
    \/ \E jobId \in JobIds : Download(jobId)
    \/ \E d \in DownloadIds : StreamEnd(d)
    \/ \E d \in DownloadIds : DeferredDelete(d)
    \/ Cleanup
    \/ Tick
    \/ Advance

Spec == Init /\ [][Next]_vars

TypeOK ==
    /\ jobs \subseteq DOMAIN heap
    /\ \A j \in jobs : heap[j] # NoJob
    /\ \A j \in DOMAIN heap : heap[j] # NoJob => heap[j].status \in JobStatus

\* The timers run their callbacks, a finished stream's cleanup included, and
\* every spawned process ends (by itself or by the kill of the timeout).
Fairness ==
    /\ WF_vars(\E c \in ConvIds : Timeout(c))
    /\ WF_vars(\E c \in ConvIds, code \in ExitCodes, ext \in ToolExts \cup {NoExt} : Close(c, code, ext))
    /\ WF_vars(\E d \in DownloadIds : DeferredDelete(d))

LiveSpec == Spec /\ Fairness

\* The server with the requests it refuses; of the tool's diagnostic output
\* only the chunk that moves a job to Converting.
RequestNext ==
    \/ \E jobId \in JobIds, title \in Titles : Prepare(jobId, title)
    \/ \E jobId \in RequestIds, format \in RequestFormats, ms \in Readings :
          Convert(jobId, format, ms)
    \/ \E jobId \in RequestIds, format \in RequestFormats : ConvertRejected(jobId, format)
    \/ \E c \in ConvIds : StderrData(c, Pct100)
    \/ \E c \in ConvIds, code \in ExitCodes, ext \in ToolExts \cup {NoExt} : Close(c, code, ext)
    \/ \E c \in ConvIds : Timeout(c)
    \/ \E jobId \in RequestIds : Download(jobId)
    \/ \E jobId \in RequestIds : DownloadRejected(jobId)
    \/ \E d \in DownloadIds : StreamEnd(d)
    \/ \E d \in DownloadIds : DeferredDelete(d)
    \/ Cleanup
    \/ Tick
    \/ Advance

RequestSpec == Init /\ [][RequestNext]_vars

\* The server whose clients repeat a download, without diagnostic output.
DeleteNext ==
    \/ \E jobId \in JobIds, title \in Titles : Prepare(jobId, title)
    \/ \E jobId \in JobIds, format \in Formats, ms \in Readings : Convert(jobId, format, ms)
    \/ \E c \in ConvIds, code \in ExitCodes, ext \in ToolExts \cup {NoExt} : Close(c, code, ext)
    \/ \E c \in ConvIds : Timeout(c)
    \/ \E jobId \in JobIds : DownloadUpTo(jobId, MaxRetries)
    \/ \E d \in DownloadIds : StreamEnd(d)
    \/ \E d \in DownloadIds : DeferredDelete(d)
    \/ Cleanup
    \/ Tick
    \/ Advance

DeleteSpec == Init /\ [][DeleteNext]_vars

\* The server with several jobs in its registry, for the sweep: the requests
\* that create and convert jobs, the end of the tool, the timers and the clock.
SweptJobIds == 1..MaxSweptJobs

SweepInit ==
    /\ now = 0
    /\ heap = [j \in SweptJobIds |-> NoJob]
    /\ jobs = {}
    /\ conversions = <<>>
    /\ files = {}
    /\ downloads = <<>>
    /\ refusal = NoRefusal
    /\ probes = <<>>
    /\ script = NoScript
    /\ page = NoPage

SweepNext ==
    \/ \E jobId \in SweptJobIds, title \in Titles : Prepare(jobId, title)
    \/ \E jobId \in SweptJobIds, format \in Formats, ms \in Readings : Convert(jobId, format, ms)
    \/ \E c \in ConvIds, code \in ExitCodes, ext \in ToolExts \cup {NoExt} : Close(c, code, ext)
    \/ \E c \in ConvIds : Timeout(c)
    \/ Cleanup
    \/ Tick
    \/ Advance

SweepSpec == SweepInit /\ [][SweepNext]_vars

\* The sweep on a disk that can refuse a deletion.
FsErrorNext ==
    \/ SweepNext
    \/ \E failing \in SweptJobIds, removed \in SUBSET SweptJobIds :
          CleanupThrows(failing, removed)

FsErrorSpec == SweepInit /\ [][FsErrorNext]_vars

\* The prepare route with its metadata fetch, next to the conversions of the
\* jobs it creates.
PrepareNext ==
    \/ \E url \in Urls : PrepareRejected(url)
    \/ \E url \in Urls : GetVideoMetadata(url)
    \/ \E p \in ProbeIds, code \in ExitCodes, parseable \in BOOLEAN,
          jobId \in SweptJobIds, title \in Titles :
          MetadataClose(p, code, parseable, jobId, title)
    \/ \E p \in ProbeIds : MetadataTimeout(p)
    \/ \E jobId \in SweptJobIds, format \in Formats, ms \in Readings : Convert(jobId, format, ms)
    \/ \E c \in ConvIds, code \in ExitCodes, ext \in ToolExts \cup {NoExt} : Close(c, code, ext)

PrepareSpec == SweepInit /\ [][PrepareNext]_vars

\* Conversions with more kinds of diagnostic output.
ProgressNext ==
    \/ \E jobId \in JobIds, title \in Titles : Prepare(jobId, title)
    \/ \E jobId \in JobIds, format \in Formats, ms \in Readings : Convert(jobId, format, ms)
    \/ \E c \in ConvIds, output \in ProgressChunks : StderrData(c, output)
    \/ \E c \in ConvIds, code \in ExitCodes, ext \in ToolExts \cup {NoExt} : Close(c, code, ext)
    \/ \E c \in ConvIds : Timeout(c)

ProgressSpec == Init /\ [][ProgressNext]_vars

\* Several jobs side by side: their requests, and the events of the
\* processes that supervise them.
JobsNext ==
    \/ \E jobId \in SweptJobIds, title \in Titles : Prepare(jobId, title)
    \/ \E jobId \in SweptJobIds, format \in Formats, ms \in Readings : Convert(jobId, format, ms)
    \/ \E c \in ConvIds, output \in Chunks : StderrData(c, output)
    \/ \E c \in ConvIds, code \in ExitCodes, ext \in ToolExts \cup {NoExt} : Close(c, code, ext)
    \/ \E c \in ConvIds : Timeout(c)
    \/ \E jobId \in SweptJobIds : Status(jobId)
    \/ \E jobId \in SweptJobIds : Download(jobId)
    \/ \E jobId \in SweptJobIds : DownloadRejected(jobId)

JobsSpec == SweepInit /\ [][JobsNext]_vars

\* The artifact specification: the same server without diagnostic output, with
\* a tool that is free in the extension of the file it writes.
ArtifactNext ==
    \/ \E jobId \in JobIds, title \in Titles : Prepare(jobId, title)
    \/ \E jobId \in JobIds, format \in Formats, ms \in Readings : Convert(jobId, format, ms)
    \/ \E c \in ConvIds, code \in ExitCodes, ext \in ArtifactExts \cup {NoExt} : Close(c, code, ext)
    \/ \E c \in ConvIds : Timeout(c)
    \/ \E jobId \in JobIds : Download(jobId)
    \/ \E d \in DownloadIds : StreamEnd(d)
    \/ \E d \in DownloadIds : DeferredDelete(d)
    \/ Cleanup
    \/ Tick
    \/ Advance

ArtifactSpec == Init /\ [][ArtifactNext]_vars

\* The ways spawn('yt-dlp', ...) fails (server.js:157): it throws inside the
\* promise executor (ENOMEM, E2BIG, ...), or it returns a child that emits
\* 'error' on the next tick (ENOENT, EACCES, EAGAIN, EMFILE, ENFILE).
SpawnFailures == {"thrown", "errorEvent"}

\* The Node process is alive: no 'error' event went unhandled.
ServerUp == \A c \in ConvIds : conversions[c].proc # "uncaught"

\* POST /api/convert when the process cannot be spawned.  A throw rejects the
\* promise before the 'close' listener and the timer are set, and the route's
\* .catch logs it.  An 'error' event finds no listener on the child and is
\* rethrown as an uncaught exception, which ends the server.
ConvertSpawnFails(jobId, format, failure) ==
    /\ jobId \in jobs
    /\ format \in Formats
    /\ failure \in SpawnFailures
    /\ Len(conversions) < MaxConversions
    /\ heap' = [heap EXCEPT ![jobId].status = DOWNLOADING, ![jobId].progress = P10]
    /\ jobs' = jobs \cup {jobId}
    /\ conversions' = Append(conversions,
          [jobId |-> jobId, format |-> format,
           outputPath |-> NullPath,
           proc |-> IF failure = "thrown" THEN "none" ELSE "uncaught",
           killed |-> FALSE,
           timer |-> "none",
           stderr |-> <<>>, promise |-> "rejected", finals |-> <<>>])
    /\ UNCHANGED <<now, files, downloads, refusal, probes, script, page>>

\* The server with a spawn that can fail; nothing runs after a crash.
SpawnNext ==
    \/ ServerUp /\ Next
    \/ /\ ServerUp
       /\ \E jobId \in JobIds, format \in Formats, failure \in SpawnFailures :
             ConvertSpawnFails(jobId, format, failure)

SpawnSpec == Init /\ [][SpawnNext]_vars

SpawnLiveSpec == SpawnSpec /\ Fairness

\* ------------------------------------------------- scripts/cleanup.js
\* 1000 * 60 * 60, the milliseconds of an hour
HourMs == 3600000
\* DEFAULT_MAX_AGE_HOURS; hours are held in tenths, as --age=0.5 is accepted
DEFAULT_MAX_AGE_HOURS == 10

\* The text after "--age=", described by what parseFloat looks at: the
\* longest numeric prefix (in tenths of an hour), or none.
NaN == -99
NoAge == [text |-> "", prefix |-> NaN]
AgeArgs ==
    { [text |-> "0", prefix |-> 0],
      [text |-> "0.5", prefix |-> 5],
      [text |-> "1", prefix |-> 10],
      [text |-> "2h", prefix |-> 20],
      [text |-> "-1", prefix |-> -10],
      [text |-> "abc", prefix |-> NaN] }

ParseFloat(arg) == arg.prefix

\* The text after "--pattern=", described by the base names its regular
\* expression matches; the empty text is falsy and selects run().
TempNames == {"a.mp3", "b.mp4"}
NoPattern == [text |-> "", matches |-> {}]
Mp3Pattern == [text |-> "\\.mp3$", matches |-> {"a.mp3"}]
Patterns == {NoPattern, Mp3Pattern}

\* The temp directory: for each name, the age of the file in milliseconds
\* (now - mtime) when the script looks at it, or Absent.
Absent == -1
FileAges == {0, HourMs \div 2, HourMs \div 2 + 1, HourMs, HourMs + 1, 2 * HourMs + 1}
TempDirs == [TempNames -> FileAges \cup {Absent}]
Present(temp) == {f \in TempNames : temp[f] # Absent}

Args == [force : BOOLEAN, dryRun : BOOLEAN, emergency : BOOLEAN,
         age : AgeArgs \cup {NoAge}, pattern : Patterns]

\* the script as it starts: its arguments and the directory it finds
ScriptStart(args, temp) ==
    [pc |-> "main", args |-> args, temp |-> temp, before |-> temp,
     maxAgeHours |-> NaN, todo |-> {}, failed |-> {}, code |-> NaN]

\* the age check of main(): isNaN(ageValue) || ageValue < 0
InvalidAge(arg) == arg # NoAge /\ (ParseFloat(arg) = NaN \/ ParseFloat(arg) < 0)

\* options.maxAgeHours of main(), then the constructor's
\* options.maxAgeHours || DEFAULT_MAX_AGE_HOURS, in which 0 is falsy
CleanupManager(arg) ==
    LET maxAgeHours == IF arg = NoAge THEN DEFAULT_MAX_AGE_HOURS ELSE ParseFloat(arg)
    IN IF maxAgeHours = 0 THEN DEFAULT_MAX_AGE_HOURS ELSE maxAgeHours

\* getFileStats: isOld is ageHours > this.maxAgeHours, with
\* ageHours = ageMs / (1000 * 60 * 60)
IsOld(ageMs, maxAgeHours) == ageMs * 10 > maxAgeHours * HourMs

\* main() up to the call of the chosen method
Main ==
    /\ script.pc = "main"
    /\ script' =
         IF InvalidAge(script.args.age)
         THEN [script EXCEPT !.pc = "exit", !.code = 1]
         ELSE [script EXCEPT
                 !.maxAgeHours = CleanupManager(script.args.age),
                 !.pc = IF script.args.emergency THEN "emergencyCleanup"
                        ELSE IF script.args.pattern.text # "" THEN "cleanupByPattern"
                        ELSE "run"]
    /\ UNCHANGED <<now, heap, jobs, conversions, files, downloads, refusal, probes, page>>

\* emergencyCleanup: fs.emptyDir, which needs --force and nothing else
EmergencyCleanup ==
    /\ script.pc = "emergencyCleanup"
    /\ script' =
         IF ~script.args.force
         THEN [script EXCEPT !.pc = "exit", !.code = 0]
         ELSE [script EXCEPT !.temp = [f \in TempNames |-> Absent],
                             !.pc = "exit", !.code = 0]
    /\ UNCHANGED <<now, heap, jobs, conversions, files, downloads, refusal, probes, page>>

\* run() up to its loop: scanTempFiles and the filter f.isOld || this.force
OldFiles(temp, maxAgeHours, force) ==
    {f \in Present(temp) : IsOld(temp[f], maxAgeHours) \/ force}

Run ==
    /\ script.pc = "run"
    /\ script' =
         IF OldFiles(script.temp, script.maxAgeHours, script.args.force) = {}
         THEN [script EXCEPT !.pc = "exit", !.code = 0]
         ELSE [script EXCEPT
                 !.todo = OldFiles(script.temp, script.maxAgeHours, script.args.force),
                 !.pc = "cleaning"]
    /\ UNCHANGED <<now, heap, jobs, conversions, files, downloads, refusal, probes, page>>

\* cleanupByPattern up to its loop: regex.test(path.basename(f.path))
CleanupByPattern ==
    /\ script.pc = "cleanupByPattern"
    /\ script' = [script EXCEPT
                    !.todo = Present(script.temp) \cap script.args.pattern.matches,
                    !.pc = "cleaning"]
    /\ UNCHANGED <<now, heap, jobs, conversions, files, downloads, refusal, probes, page>>

\* A cleanupFile that removes the file in a dry run as well.
CleanupFileIgnoresDryRun(s, f, removable) ==
    IF removable
    THEN [s EXCEPT !.temp[f] = Absent, !.todo = @ \ {f}]
    ELSE [s EXCEPT !.failed = @ \cup {f}, !.todo = @ \ {f}]

\* cleanupFile: nothing but a log line in a dry run; otherwise fs.remove,
\* whose failure is caught and counted
CleanupFile(s, f, removable) ==
    IF s.args.dryRun
    THEN [s EXCEPT !.todo = @ \ {f}]
    ELSE IF removable
         THEN [s EXCEPT !.temp[f] = Absent, !.todo = @ \ {f}]
         ELSE [s EXCEPT !.failed = @ \cup {f}, !.todo = @ \ {f}]

\* one pass of the loop over the files to clean (the loop follows the order
\* of readdir, which the set does not keep)
CleanupStep(f, removable) ==
    /\ script.pc = "cleaning"
    /\ f \in script.todo
    /\ script' = CleanupFile(script, f, removable)
    /\ UNCHANGED <<now, heap, jobs, conversions, files, downloads, refusal, probes, page>>

\* the loop is over: summary and process.exit(0)
Exit ==
    /\ script.pc = "cleaning"
    /\ script.todo = {}
    /\ script' = [script EXCEPT !.pc = "exit", !.code = 0]
    /\ UNCHANGED <<now, heap, jobs, conversions, files, downloads, refusal, probes, page>>

ScriptInit ==
    /\ now = 0
    /\ heap = [j \in JobIds |-> NoJob]
    /\ jobs = {}
    /\ conversions = <<>>
    /\ files = {}
    /\ downloads = <<>>
    /\ refusal = NoRefusal
    /\ probes = <<>>
    /\ script \in {ScriptStart(args, temp) : args \in Args, temp \in TempDirs}
    /\ page = NoPage

ScriptNext ==
    \/ Main
    \/ EmergencyCleanup
    \/ Run
    \/ CleanupByPattern
    \/ \E f \in TempNames, removable \in BOOLEAN : CleanupStep(f, removable)
    \/ Exit

ScriptSpec == ScriptInit /\ [][ScriptNext]_vars

\* ------------------------------------- frontend (class YouTubeConverter)
MaxCalls == 2
MaxPolls == 2
MaxTimers == 2

\* What the user can have typed into #youtubeUrl
PageUrls == {NoUrl, WatchUrl}

\* validateUrl: one of the two patterns matches
ValidateUrl(url) ==
    /\ url.scheme \in {"http", "https"}
    /\ \/ <<url.host, url.path>> \in {<<"youtube.com", "watch?v=">>, <<"youtu.be", "">>,
                                      <<"youtube.com", "embed/">>, <<"youtube.com", "v/">>}
       \/ <<url.host, url.path>> = <<"youtube.com", "shorts/">>
    /\ url.id # ""

\* null of currentJobId and of statusCheckInterval
Null == 0

\* What a status poll can get: the status of an answer that is ok, or "failed"
\* for an answer that is not ok and for a fetch that rejects.
PollAnswers == {DOWNLOADING, READY, ERROR, "failed"}

\* The page after DOMContentLoaded.  section is the one of progressSection,
\* downloadSection and errorSection that is not hidden, progressText what
\* updateProgress wrote last; calls are the invocations of handlePreview and
\* handleConvert with the fetch they wait for, polls the fetches of the
\* interval callback; intervals are the setInterval timers not yet cleared.
PageLoaded ==
    [pc |-> "loaded", consent |-> FALSE, url |-> NoUrl, currentJobId |-> Null,
     statusCheckInterval |-> Null, intervals |-> {}, lastTimer |-> 0,
     section |-> "none", progressText |-> "", modal |-> FALSE,
     calls |-> <<>>, polls |-> <<>>]

CallIds == 1..Len(page.calls)
PollIds == 1..Len(page.polls)

\* A startStatusPolling that sets its timer without clearing the one before.
StartStatusPollingKeepsOld(p) ==
    [p EXCEPT !.lastTimer = @ + 1,
              !.intervals = @ \cup {p.lastTimer + 1},
              !.statusCheckInterval = p.lastTimer + 1]

\* startStatusPolling: clearInterval of the current timer, then setInterval
StartStatusPolling(p) ==
    [p EXCEPT !.lastTimer = @ + 1,
              !.intervals = (@ \ {p.statusCheckInterval}) \cup {p.lastTimer + 1},
              !.statusCheckInterval = p.lastTimer + 1]

\* stopStatusPolling
StopStatusPolling(p) ==
    IF p.statusCheckInterval # Null
    THEN [p EXCEPT !.intervals = @ \ {p.statusCheckInterval},
                   !.statusCheckInterval = Null]
    ELSE p

\* showProgressSection, showDownloadSection, showError: hideAllSections and
\* the one section
ShowProgressSection(p) == [p EXCEPT !.section = "progress"]
ShowDownloadSection(p) == [p EXCEPT !.section = "download"]
ShowError(p) == [p EXCEPT !.section = "error"]

\* hideVideoPreview forgets the job
HideVideoPreview(p) == [p EXCEPT !.currentJobId = Null]

\* showInputError and clearInputError write the help text under the input,
\* which nothing reads
ShowInputError(p) == p
ClearInputError(p) == p

\* a new invocation that waits for the answer of `request`
Call(p, fn, request) ==
    [p EXCEPT !.calls = Append(@, [fn |-> fn, pc |-> request,
                                   consent |-> p.consent])]

\* the user ticks or unticks #legalConsent
ToggleConsent ==
    /\ page.pc = "loaded"
    /\ page' = [page EXCEPT !.consent = ~@]
    /\ UNCHANGED <<now, heap, jobs, conversions, files, downloads, refusal, probes, script>>

\* 'input' on #youtubeUrl: the new text, and hideVideoPreview
Input(url) ==
    /\ page.pc = "loaded"
    /\ url \in PageUrls
    /\ url # page.url
    /\ page' = HideVideoPreview([page EXCEPT !.url = url])
    /\ UNCHANGED <<now, heap, jobs, conversions, files, downloads, refusal, probes, script>>

\* handlePreview up to its fetch of /api/prepare
HandlePreview(p, fn) ==
    IF p.url = NoUrl \/ ~ValidateUrl(p.url)
    THEN ShowInputError(p)
    ELSE Call(p, fn, "prepare")

\* click on #previewBtn
ClickPreview ==
    /\ page.pc = "loaded"
    /\ Len(page.calls) < MaxCalls
    /\ page' = HandlePreview(page, "handlePreview")
    /\ UNCHANGED <<now, heap, jobs, conversions, files, downloads, refusal, probes, script>>

\* handleConvert from `this.showProgressSection()` to the fetch of
\* /api/convert
StartConversion(p, fn) ==
    Call(ShowProgressSection([p EXCEPT !.progressText = "Starting conversion..."]),
         fn, "convert")

\* handleConvert up to its first await
HandleConvert(p) ==
    IF ~p.consent
    THEN [p EXCEPT !.modal = TRUE]
    ELSE IF p.url = NoUrl \/ ~ValidateUrl(p.url)
         THEN ShowInputError(p)
         ELSE IF p.currentJobId = Null
              THEN HandlePreview(p, "handleConvert")
              ELSE StartConversion(p, "handleConvert")

\* 'submit' of #converterForm
Submit ==
    /\ page.pc = "loaded"
    /\ Len(page.calls) < MaxCalls
    /\ page' = HandleConvert(page)
    /\ UNCHANGED <<now, heap, jobs, conversions, files, downloads, refusal, probes, script>>

\* The rest of handlePreview when the fetch of /api/prepare settles, and the
\* rest of handleConvert after `await this.handlePreview()`.
AfterPrepare(p, k, ok, jobId) ==
    LET previewed == IF ok THEN ClearInputError([p EXCEPT !.currentJobId = jobId])
                     ELSE HideVideoPreview(ShowInputError(p))
        ended == [previewed EXCEPT !.calls[k].pc = "done"]
    IN IF p.calls[k].fn = "handlePreview" \/ previewed.currentJobId = Null
       THEN ended
       ELSE [ShowProgressSection([previewed EXCEPT !.progressText = "Starting conversion..."])
                EXCEPT !.calls[k].pc = "convert"]

\* the answer of /api/prepare arrives; the server gives each job a new id
PrepareResponse(k, ok) ==
    /\ page.pc = "loaded"
    /\ k \in CallIds
    /\ page.calls[k].pc = "prepare"
    /\ page' = AfterPrepare(page, k, ok, k)
    /\ UNCHANGED <<now, heap, jobs, conversions, files, downloads, refusal, probes, script>>

\* the answer of /api/convert arrives: startStatusPolling, or the catch block
ConvertResponse(k, ok) ==
    /\ page.pc = "loaded"
    /\ k \in CallIds
    /\ page.calls[k].pc = "convert"
    /\ ok => page.lastTimer < MaxTimers
    /\ page' = [(IF ok THEN StartStatusPolling(page) ELSE ShowError(page))
                  EXCEPT !.calls[k].pc = "done"]
    /\ UNCHANGED <<now, heap, jobs, conversions, files, downloads, refusal, probes, script>>

\* the interval callback up to its fetch of /api/status/<currentJobId>
IntervalTick(t) ==
    /\ page.pc = "loaded"
    /\ t \in page.intervals
    /\ Len(page.polls) < MaxPolls
    /\ page' = [page EXCEPT !.polls = Append(@,
                   [jobId |-> page.currentJobId,
                    state |-> "sent", stale |-> FALSE])]
    /\ UNCHANGED <<now, heap, jobs, conversions, files, downloads, refusal, probes, script>>

\* the rest of the interval callback on the page
AfterStatus(p, answer) ==
    IF answer = "failed"
    THEN ShowError(StopStatusPolling(p))
    ELSE LET shown == [p EXCEPT !.progressText = answer]
         IN IF answer = READY THEN ShowDownloadSection(StopStatusPolling(shown))
            ELSE IF answer = ERROR THEN ShowError(StopStatusPolling(shown))
            ELSE shown

\* the answer of a status poll arrives
PollResponse(q, answer) ==
    /\ page.pc = "loaded"
    /\ q \in PollIds
    /\ answer \in PollAnswers
    /\ page.polls[q].state = "sent"
    /\ page' = [AfterStatus(page, answer) EXCEPT !.polls[q].state = "done"]
    /\ UNCHANGED <<now, heap, jobs, conversions, files, downloads, refusal, probes, script>>

\* resetForm on the page; the polls still in flight are marked
ResetFormPage(p) ==
    LET cleared == [p EXCEPT !.url = NoUrl, !.consent = FALSE, !.section = "none"]
    IN [StopStatusPolling(HideVideoPreview(ClearInputError(cleared))) EXCEPT
          !.polls = [q \in DOMAIN p.polls |->
                       IF p.polls[q].state = "sent"
                       THEN [p.polls[q] EXCEPT !.stale = TRUE]
                       ELSE p.polls[q]]]

\* What runs resetForm: #nextBtn and #retryBtn, which sit in the download
\* and in the error section, and 'popstate'.
ResetCauses == {"nextBtn", "retryBtn", "popstate"}

ResetForm(cause) ==
    /\ page.pc = "loaded"
    /\ cause \in ResetCauses
    /\ cause = "nextBtn" => page.section = "download"
    /\ cause = "retryBtn" => page.section = "error"
    /\ page' = ResetFormPage(page)
    /\ UNCHANGED <<now, heap, jobs, conversions, files, downloads, refusal, probes, script>>

\* 'offline' of the window
Offline ==
    /\ page.pc = "loaded"
    /\ page' = StopStatusPolling(page)
    /\ UNCHANGED <<now, heap, jobs, conversions, files, downloads, refusal, probes, script>>

\* 'online' of the window
Online ==
    /\ page.pc = "loaded"
    /\ page.currentJobId # Null
    /\ page.statusCheckInterval = Null
    /\ page.lastTimer < MaxTimers
    /\ page' = StartStatusPolling(page)
    /\ UNCHANGED <<now, heap, jobs, conversions, files, downloads, refusal, probes, script>>

\* closeModal: the modal's button, a click on the overlay, Escape
CloseModal ==
    /\ page.pc = "loaded"
    /\ page.modal
    /\ page' = [page EXCEPT !.modal = FALSE]
    /\ UNCHANGED <<now, heap, jobs, conversions, files, downloads, refusal, probes, script>>

PageInit ==
    /\ now = 0
    /\ heap = [j \in JobIds |-> NoJob]
    /\ jobs = {}
    /\ conversions = <<>>
    /\ files = {}
    /\ downloads = <<>>
    /\ refusal = NoRefusal
    /\ probes = <<>>
    /\ script = NoScript
    /\ page = PageLoaded

PageNext ==
    \/ ToggleConsent
    \/ \E url \in PageUrls : Input(url)
    \/ ClickPreview
    \/ Submit
    \/ \E k \in CallIds, ok \in BOOLEAN : PrepareResponse(k, ok)
    \/ \E k \in CallIds, ok \in BOOLEAN : ConvertResponse(k, ok)
    \/ \E t \in page.intervals : IntervalTick(t)
    \/ \E q \in PollIds, answer \in PollAnswers : PollResponse(q, answer)
    \/ \E cause \in ResetCauses : ResetForm(cause)
    \/ Offline
    \/ Online
    \/ CloseModal

PageSpec == PageInit /\ [][PageNext]_vars

\* ------------------------------------------------------------------ claims
Created(j) == heap[j] # NoJob
Terminal(j) == heap[j].status \in {READY, ERROR}
ConversionsOf(j) == {c \in ConvIds : conversions[c].jobId = j}
Accepted(j) == ConversionsOf(j) # {}

\* C1: once a job's status is Ready or Error, no step changes it.
C1_TerminalStatusIsFinal ==
    [][\A j \in JobIds : Terminal(j) => heap'[j].status = heap[j].status]_vars

\* C2: each invocation of performConversion runs at most one finalization
\* (success, missing output, non-zero exit, timeout), and exactly one once its
\* process has closed or its timer has fired.
C2_ExactlyOneFinalization ==
    \A c \in ConvIds :
        /\ Len(conversions[c].finals) <= 1
        /\ (conversions[c].proc = "closed" \/ conversions[c].timer = "fired")
              => Len(conversions[c].finals) = 1

\* C3: a job with an accepted convert request eventually has status Ready or
\* Error, when timers fire and processes end.
C3_EventuallyTerminal ==
    \A j \in JobIds : Accepted(j) ~> Terminal(j)

C3_Witness ==
    \E c \in ConvIds :
        /\ conversions[c].timer = "fired"
        /\ conversions[c].proc = "closed"
        /\ Terminal(conversions[c].jobId)

\* C4: while a job is not terminal, the progress a status query returns never
\* decreases from one step to the next.
C4_ProgressNeverDecreases ==
    [][\A j \in JobIds :
          (j \in jobs /\ j \in jobs' /\ ~Terminal(j))
             => heap'[j].progress >= heap[j].progress]_vars

\* C5: when the timer has fired on a running process, the job's recorded
\* outcome after the process has closed is still Error / 'Conversion timeout'.
C5_TimeoutOutcomeIsFinal ==
    \A c \in ConvIds :
        (/\ conversions[c].killed
         /\ conversions[c].proc = "closed"
         /\ ConversionsOf(conversions[c].jobId) = {c})
        => /\ heap[conversions[c].jobId].status = ERROR
           /\ heap[conversions[c].jobId].error.msg = "Conversion timeout"

\* C6: diagnostic output that arrives while a job's status is Error changes
\* neither its status nor its progress.
C6_ErrorFreezesJob ==
    [][(\E c \in ConvIds, output \in Chunks : StderrData(c, output))
         => \A j \in JobIds :
               heap[j].status = ERROR
                  => /\ heap'[j].status = ERROR
                     /\ heap'[j].progress = heap[j].progress]_vars

\* C7: at most one supervision (running process) per job id at any time.
C7_AtMostOneSupervision ==
    \A j \in JobIds :
        Cardinality({c \in ConversionsOf(j) : conversions[c].proc = "running"}) <= 1

\* C8: an id that was removed from the registry never is in it again.
C8_RemovedStaysRemoved ==
    [][\A j \in JobIds : (Created(j) /\ j \notin jobs) => j \notin jobs']_vars

\* C9: a job of the registry has an outputPath only if its status is Ready.
C9_OutputPathOnlyWhenReady ==
    \A j \in jobs : heap[j].outputPath # NullPath => heap[j].status = READY

\* C10: a job of the registry has an error only if its status is Error.
C10_ErrorOnlyWhenError ==
    \A j \in jobs : heap[j].error # NullError => heap[j].status = ERROR

\* C11: a job whose status is Ready has progress 100, an outputPath and a
\* completedAt.
C11_ReadyIsComplete ==
    \A j \in DOMAIN heap :
        heap[j].status = READY
           => /\ heap[j].progress = P100
              /\ heap[j].outputPath # NullPath
              /\ heap[j].completedAt # NoDate

\* a Ready job that is supervised by a second, still running conversion which
\* has already printed diagnostics
C11_Witness ==
    \E c \in ConvIds :
        /\ heap[conversions[c].jobId].status = READY
        /\ conversions[c].proc = "running"
        /\ conversions[c].stderr # <<>>

\* C12: every change of a job's status is an edge of the state machine.
Edges ==
    {<<QUEUED, DOWNLOADING>>, <<DOWNLOADING, CONVERTING>>, <<CONVERTING, READY>>,
     <<QUEUED, ERROR>>, <<DOWNLOADING, ERROR>>, <<CONVERTING, ERROR>>}

C12_StatusFollowsEdges ==
    [][\A j \in DOMAIN heap :
          (Created(j) /\ heap'[j].status # heap[j].status)
             => <<heap[j].status, heap'[j].status>> \in Edges]_vars

\* C13: when the process exits with code 0 and a candidate file exists, the
\* job becomes Ready with the first existing candidate, in the order requested
\* extension, mp3, mp4, webm, m4a, as its outputPath.
CandidateOrder(format) == <<format, "mp3", "mp4", "webm", "m4a">>

C13_FirstExistingCandidate ==
    [][\A c \in ConvIds, ext \in ArtifactExts \cup {NoExt} :
          Close(c, 0, ext) =>
             LET j == conversions[c].jobId
                 order == CandidateOrder(conversions[c].format)
                 file(k) == [conversions[c].outputPath EXCEPT !.ext = order[k]]
                 existing == {k \in 1..Len(order) : file(k) \in files'}
             IN existing # {} =>
                   /\ heap'[j].status = READY
                   /\ \E k \in existing :
                         /\ \A m \in existing : k <= m
                         /\ heap'[j].outputPath = file(k)]_vars

\* mp4 was requested, no .mp4 exists, .mp3 and .webm do: the job is Ready with
\* the .mp3
C13_Witness ==
    \E c \in ConvIds :
        LET job == heap[conversions[c].jobId] IN
        /\ conversions[c].proc = "closed"
        /\ conversions[c].format = "mp4"
        /\ job.status = READY
        /\ job.outputPath.ext = "mp3"
        /\ [job.outputPath EXCEPT !.ext = "webm"] \in files
        /\ [job.outputPath EXCEPT !.ext = "mp4"] \notin files

\* C14: when the process exits with code 0 and no candidate file exists, the
\* job becomes Error with 'Output file not generated', its outputPath is null
\* and its progress is the one it had.
C14_OutputMissing ==
    [][\A c \in ConvIds, ext \in ArtifactExts \cup {NoExt} :
          Close(c, 0, ext) =>
             LET j == conversions[c].jobId
                 order == CandidateOrder(conversions[c].format)
                 candidates == {[conversions[c].outputPath EXCEPT !.ext = order[k]] :
                                   k \in 1..Len(order)}
             IN candidates \cap files' = {} =>
                   /\ heap'[j].status = ERROR
                   /\ heap'[j].error = [msg |-> "Output file not generated", text |-> <<>>]
                   /\ heap'[j].outputPath = NullPath
                   /\ heap'[j].progress = heap[j].progress]_vars

\* C15: when the process exits with a non-zero code before the timeout, the
\* job becomes Error with the captured stderr text (trimmed), or with 'Unknown
\* conversion error' when that is empty, and its outputPath is null.
C15_NonZeroExit ==
    [][\A c \in ConvIds, ext \in ArtifactExts \cup {NoExt} :
          (Close(c, 1, ext) /\ conversions[c].timer = "pending") =>
             LET j == conversions[c].jobId
                 text == Trim(conversions[c].stderr)
             IN /\ heap'[j].status = ERROR
                /\ heap'[j].error = IF text = <<>>
                                    THEN [msg |-> "Unknown conversion error", text |-> <<>>]
                                    ELSE [msg |-> "stderr", text |-> text]
                /\ heap'[j].outputPath = NullPath]_vars

\* C16: every failure of the asynchronous orchestration (spawn failure,
\* non-zero exit, missing output, timeout) leaves the job in status Error with
\* an error detail, and the server running.
C16_FailuresAreRecorded ==
    [][/\ \A jobId \in JobIds, format \in Formats, failure \in SpawnFailures :
             ConvertSpawnFails(jobId, format, failure) =>
                /\ ServerUp'
                /\ heap'[jobId].status = ERROR
                /\ heap'[jobId].error # NullError
       /\ \A c \in ConvIds, code \in ExitCodes, ext \in ArtifactExts \cup {NoExt} :
             (/\ Close(c, code, ext)
              /\ conversions'[c].finals[Len(conversions'[c].finals)] # "success") =>
                /\ ServerUp'
                /\ heap'[conversions[c].jobId].status = ERROR
                /\ heap'[conversions[c].jobId].error # NullError
       /\ \A c \in ConvIds :
             Timeout(c) =>
                /\ ServerUp'
                /\ heap'[conversions[c].jobId].status = ERROR
                /\ heap'[conversions[c].jobId].error # NullError]_vars

\* The other variables a refused request must leave alone
ServerState == <<now, heap, jobs, conversions, files, downloads>>

\* C17 as stated: a convert request for an id that is not in the registry is
\* answered 'Job not found', a convert request with a format outside {mp3, mp4}
\* is answered 'Invalid format', and neither changes anything else.
C17_ConvertRefusalsAsStated ==
    [][\A jobId \in RequestIds, format \in RequestFormats :
          ((\E ms \in Readings : Convert(jobId, format, ms)) \/ ConvertRejected(jobId, format))
             => /\ jobId \notin jobs
                   => refusal'.status = 404 /\ UNCHANGED ServerState
                /\ format \notin {"mp3", "mp4"}
                   => refusal'.status = 400 /\ UNCHANGED ServerState]_vars

\* C17: a convert request for an id that is not in the registry is answered
\* 'Job not found'; one for an id in the registry with a format outside
\* {mp3, mp4} is answered 'Invalid format'; neither spawns a process nor
\* changes a job, the registry or a file.
C17_ConvertRefusals ==
    [][\A jobId \in RequestIds, format \in RequestFormats :
          ((\E ms \in Readings : Convert(jobId, format, ms)) \/ ConvertRejected(jobId, format))
             => /\ jobId \notin jobs
                   => /\ refusal' = [route |-> "convert", status |-> 404,
                                     error |-> "Job not found"]
                      /\ UNCHANGED ServerState
                /\ (jobId \in jobs /\ format \notin {"mp3", "mp4"})
                   => /\ refusal' = [route |-> "convert", status |-> 400,
                                     error |-> "Invalid format. Use mp3 or mp4"]
                      /\ UNCHANGED ServerState]_vars

\* the format of a request for a job in the registry was refused while a
\* conversion of that job was running
C17_Witness ==
    /\ refusal.route = "convert"
    /\ refusal.status = 400
    /\ \E c \in ConvIds : conversions[c].proc = "running" /\ conversions[c].jobId \in jobs

\* C18: a download request starts a stream of the artifact exactly when the
\* job is in the registry, its status is Ready and its artifact file exists;
\* otherwise it is answered 404, no deletion is scheduled, and the registry,
\* the jobs and the files stay as they are.
C18_DownloadOnlyWhenReady ==
    [][\A jobId \in RequestIds :
          (Download(jobId) \/ DownloadRejected(jobId))
             => IF /\ jobId \in jobs
                   /\ heap[jobId].status = READY
                   /\ heap[jobId].outputPath \in files
                THEN /\ Len(downloads') = Len(downloads) + 1
                     /\ downloads'[Len(downloads')].jobId = jobId
                     /\ downloads'[Len(downloads')].filePath = heap[jobId].outputPath
                     /\ downloads'[Len(downloads')].state = "streaming"
                     /\ UNCHANGED <<heap, jobs, files, refusal>>
                ELSE /\ refusal'.route = "download"
                     /\ refusal'.status = 404
                     /\ UNCHANGED ServerState]_vars

\* a download was refused for a job in the registry whose artifact exists and
\* whose status is not Ready
C18_Witness ==
    /\ refusal.route = "download"
    /\ \E j \in jobs :
          /\ heap[j].status # READY
          /\ heap[j].outputPath \in files

\* C19: the end of a download stream schedules a deletion 5 s later and
\* changes nothing else; the deletion, when it runs, takes the job's entry out
\* of the registry and the streamed file off the disk and nothing else, also
\* when one of them or both are absent already.
C19_DeferredDeletion ==
    [][\A d \in DownloadIds :
          /\ (downloads[d].state = "streaming" /\ downloads'[d].state # "streaming")
                => /\ downloads'[d].state = "scheduled"
                   /\ downloads'[d].delay = 5000
                   /\ UNCHANGED <<heap, jobs, files>>
          /\ (downloads[d].state = "scheduled" /\ downloads'[d].state # "scheduled")
                => /\ downloads'[d].state = "done"
                   /\ jobs' = jobs \ {downloads[d].jobId}
                   /\ files' = files \ {downloads[d].filePath}
                   /\ UNCHANGED heap]_vars

\* two downloads of the same artifact have ended and both deletions have run
C19_Witness ==
    \E d1, d2 \in DownloadIds :
        /\ d1 < d2
        /\ downloads[d1].state = "done"
        /\ downloads[d2].state = "done"
        /\ downloads[d1].jobId = downloads[d2].jobId
        /\ downloads[d1].filePath = downloads[d2].filePath
        /\ downloads[d1].filePath \notin files
        /\ downloads[d1].jobId \notin jobs

\* a sweep has removed the job and the file that a scheduled deletion names
C19_SweepFirst ==
    \E d \in DownloadIds :
        /\ downloads[d].state = "scheduled"
        /\ downloads[d].filePath \notin files
        /\ downloads[d].jobId \notin jobs
        /\ \A k \in DownloadIds : downloads[k].state # "done"

\* C20: a sweep removes from the registry exactly the entries created before
\* now minus one hour, deletes the artifact of each of them, and leaves every
\* other entry and its artifact as they are.
C20_SweepRemovesExactlyStale ==
    [][Cleanup =>
          LET cutoff == now - 3600000
              stale == {j \in jobs : heap[j].createdAt < cutoff}
          IN /\ jobs' = jobs \ stale
             /\ \A j \in stale : heap[j].outputPath \notin files'
             /\ \A j \in jobs \ stale :
                   /\ heap'[j] = heap[j]
                   /\ heap[j].outputPath \in files => heap[j].outputPath \in files']_vars

\* C21: a second sweep right after a sweep, at the same time and with no
\* event in between, finds no entry to remove: it reports 0 cleaned jobs and
\* removes no entry and no file.
C21_SweepIsIdempotent ==
    [][Cleanup =>
          LET staleAgain == {j \in jobs' : heap'[j].createdAt < now' - 3600000}
          IN /\ staleAgain = {}
             /\ CleanedJobs' = 0
             /\ jobs' \ staleAgain = jobs'
             /\ files' \ {heap'[j].outputPath : j \in staleAgain} = files']_vars

\* a sweep has removed a converted job and its artifact and has kept a
\* younger job
C21_Witness ==
    \E j \in DOMAIN heap, k \in jobs :
        /\ Created(j)
        /\ j \notin jobs
        /\ heap[j].createdAt < now - 3600000
        /\ heap[j].outputPath # NullPath
        /\ heap[j].outputPath \notin files
        /\ heap[k].createdAt >= now - 3600000

\* C22: when the removal of one stale job's artifact fails during a sweep,
\* the sweep answers without an error and every other stale entry is removed.
C22_SweepSurvivesFsError ==
    [][\A failing \in SweptJobIds, removed \in SUBSET SweptJobIds :
          CleanupThrows(failing, removed) =>
             /\ refusal' = refusal
             /\ \A j \in StaleJobs \ {failing} : j \notin jobs']_vars

\* C23: every artifact file on the disk is the outputPath of an entry of the
\* registry, so that a later sweep of that entry deletes it.
C23_NoOrphanArtifact ==
    \A file \in files : \E j \in jobs : heap[j].outputPath = file

\* C24: the step that creates a job adds exactly its id, which was not in the
\* registry, to the registry, with status Queued, progress 0, no outputPath
\* and no error, and changes no other job.
C24_PrepareInsertsOneQueuedJob ==
    [][\A j \in DOMAIN heap :
          (heap[j] = NoJob /\ heap'[j] # NoJob)
             => /\ j \notin jobs
                /\ jobs' = jobs \cup {j}
                /\ heap'[j].id = j
                /\ heap'[j].status = QUEUED
                /\ heap'[j].progress = 0
                /\ heap'[j].outputPath = NullPath
                /\ heap'[j].error = NullError
                /\ \A k \in DOMAIN heap \ {j} : heap'[k] = heap[k]]_vars

\* a second job was prepared while the first one was already converted
C24_Witness ==
    \E j, k \in jobs :
        /\ heap[j].status = READY
        /\ heap[k].status = QUEUED
        /\ heap[k].progress = 0
        /\ heap[k].createdAt > heap[j].createdAt

\* C25: a prepare request with a malformed url is answered 400 without a
\* metadata fetch, and a metadata fetch that fails (non-zero exit, unparsable
\* output, timeout) is answered 500; in all these cases no job is created and
\* the registry and its entries stay as they are.
C25_FailedPrepareCreatesNothing ==
    [][/\ \A url \in Urls :
             (/\ PrepareRejected(url) \/ GetVideoMetadata(url)
              /\ url = NoUrl \/ ~IsValidYouTubeUrl(url))
                => /\ refusal'.route = "prepare"
                   /\ refusal'.status = 400
                   /\ UNCHANGED <<heap, jobs, probes>>
       /\ \A p \in ProbeIds, code \in ExitCodes, parseable \in BOOLEAN,
             jobId \in SweptJobIds, title \in Titles :
             (/\ MetadataClose(p, code, parseable, jobId, title)
              /\ probes[p].promise = "pending"
              /\ code # 0 \/ ~parseable)
                => /\ refusal'.route = "prepare"
                   /\ refusal'.status = 500
                   /\ UNCHANGED <<heap, jobs>>
       /\ \A p \in ProbeIds :
             (MetadataTimeout(p) /\ probes[p].promise = "pending")
                => /\ refusal' = [route |-> "prepare", status |-> 500,
                                  error |-> "Metadata fetch timeout"]
                   /\ UNCHANGED <<heap, jobs>>]_vars

\* a metadata fetch has failed on unparsable output while the registry held a
\* job, and the answer was 500
C25_Witness ==
    /\ refusal.route = "prepare"
    /\ refusal.status = 500
    /\ jobs # {}
    /\ \E p \in ProbeIds : probes[p].outcome = "Failed to parse video metadata"

\* C26: the first of process close and 30 s timeout decides the outcome of a
\* metadata fetch: close with code 0 and parseable output is success, any
\* other close is failure, the timeout kills the process and is failure; the
\* outcome, once there, never changes, and a later event of the same fetch
\* creates no job and sends no answer.
C26_OneMetadataOutcome ==
    [][\A p \in ProbeIds :
          /\ probes[p].outcome # NoOutcome
                => /\ probes'[p].outcome = probes[p].outcome
                   /\ probes'[p] # probes[p] => UNCHANGED <<heap, jobs, refusal>>
          /\ \A code \in ExitCodes, parseable \in BOOLEAN,
                jobId \in SweptJobIds, title \in Titles :
                (/\ MetadataClose(p, code, parseable, jobId, title)
                 /\ probes[p].outcome = NoOutcome)
                   => IF code = 0 /\ parseable
                      THEN /\ probes'[p].outcome = "metadata"
                           /\ jobs' = jobs \cup {jobId}
                           /\ jobId \notin jobs
                      ELSE /\ probes'[p].outcome \in {"Failed to parse video metadata",
                                                      "Failed to fetch metadata"}
                           /\ jobs' = jobs
          /\ (MetadataTimeout(p) /\ probes[p].outcome = NoOutcome)
                => /\ probes'[p].outcome = "Metadata fetch timeout"
                   /\ probes'[p].killed
                   /\ probes'[p].delay = 30000
                   /\ jobs' = jobs]_vars

\* a fetch has timed out, its killed process has closed afterwards, and the
\* outcome is still the timeout
C26_Witness ==
    \E p \in ProbeIds :
        /\ probes[p].outcome = "Metadata fetch timeout"
        /\ probes[p].killed
        /\ probes[p].proc = "closed"

\* C27: the progress of every job is an integer between 0 and 100 (progress
\* is held in tenths).
C27_ProgressIsIntegerPercent ==
    \A j \in DOMAIN heap :
        Created(j) =>
           /\ heap[j].progress \in 0..P100
           /\ heap[j].progress % 10 = 0

\* C28: a download chunk with a percentage p that is not the completion
\* marker sets the progress to max(c, s), where c is the current progress and
\* s the integer min(70, p * 0.7), and leaves the status.
C28_ScaledProgressIsInteger ==
    [][\A c \in ConvIds, output \in Chunks :
          (/\ StderrData(c, output)
           /\ output.marker /\ ~output.hundred /\ output.pct # NoPct) =>
             LET j == conversions[c].jobId
                 scaled == Min(70, (output.pct * 7) \div 100)
             IN /\ heap'[j].progress = Max(heap[j].progress, 10 * scaled)
                /\ heap'[j].status = heap[j].status]_vars

\* C29: a chunk without the download marker, or with the marker and without
\* a percentage, leaves status, progress, outputPath and error of the job as
\* they are.
C29_OtherChunksChangeNothing ==
    [][\A c \in ConvIds, output \in ProgressChunks :
          (/\ StderrData(c, output)
           /\ ~output.marker \/ output.pct = NoPct) =>
             LET j == conversions[c].jobId
             IN /\ heap'[j].status = heap[j].status
                /\ heap'[j].progress = heap[j].progress
                /\ heap'[j].outputPath = heap[j].outputPath
                /\ heap'[j].error = heap[j].error]_vars

\* a percentage on a line without the marker has reached a job that is still
\* at the progress of its start
C29_Witness ==
    \E c \in ConvIds :
        /\ conversions[c].proc = "running"
        /\ conversions[c].stderr = <<WarningPct>>
        /\ heap[conversions[c].jobId].progress = P10
        /\ heap[conversions[c].jobId].status = DOWNLOADING

\* C30: from the creation of a job on, no step changes its id, url, metadata
\* or createdAt, whether or not the job is in the registry.
C30_IdentityIsImmutable ==
    [][\A j \in DOMAIN heap :
          Created(j) =>
             /\ heap'[j].id = heap[j].id
             /\ heap'[j].url = heap[j].url
             /\ heap'[j].metadata = heap[j].metadata
             /\ heap'[j].createdAt = heap[j].createdAt]_vars

\* the timer of a conversion has fired for a job that was created an hour
\* before
C30_Witness ==
    \E c \in ConvIds :
        /\ conversions[c].timer = "fired"
        /\ heap[conversions[c].jobId].status = ERROR
        /\ heap[conversions[c].jobId].createdAt < now
        /\ heap[conversions[c].jobId].id = conversions[c].jobId

\* The script has ended a run() (no --emergency, no --pattern) that deletes.
RunEnded ==
    /\ script.pc = "exit"
    /\ script.code = 0
    /\ ~script.args.emergency
    /\ script.args.pattern.text = ""
    /\ ~script.args.dryRun

\* C31: run with --age=A for an accepted A >= 0 and without --force, the
\* script deletes exactly the temp files that are older than A hours and keeps
\* every other file (no deletion having failed).
C31_AgeDecidesDeletion ==
    (/\ script.pc # "none"
     /\ RunEnded
     /\ script.args.age # NoAge
     /\ ~script.args.force
     /\ script.failed = {})
    => \A f \in Present(script.before) :
          (script.temp[f] = Absent)
              <=> (script.before[f] * 10 > ParseFloat(script.args.age) * HourMs)

\* The modes of --dry-run the claim names: run() and cleanupByPattern()
DryRunEnded ==
    /\ script.pc = "exit"
    /\ script.args.dryRun
    /\ ~script.args.emergency

\* C32: in dry-run mode, run() and cleanupByPattern() delete no file: at
\* every point of the run the temp directory holds the files it held at the
\* start, whatever their ages and with or without --force.
C32_DryRunDeletesNothing ==
    (/\ script.pc # "none"
     /\ script.args.dryRun
     /\ ~script.args.emergency)
    => script.temp = script.before

\* C32 witness: a dry run with --force has gone through its loop over files
\* that a real run deletes, one of them older than the age limit.
C32_Witness ==
    /\ script.pc # "none"
    /\ DryRunEnded
    /\ script.args.force
    /\ script.code = 0
    /\ \E f \in Present(script.before) :
          IsOld(script.before[f], script.maxAgeHours)
    /\ Present(script.temp) = TempNames

\* The step sends the convert request of invocation k.
ConvertSent(k) ==
    /\ k \in 1..Len(page'.calls)
    /\ page'.calls[k].pc = "convert"
    /\ k \in CallIds => page.calls[k].pc # "convert"

\* The step starts status polling: startStatusPolling sets a new timer.
PollingStarted == page'.lastTimer > page.lastTimer

\* C33: the frontend sends a convert request, and starts status polling, only
\* for a form submission at which the legal-consent checkbox was checked.
C33_ConsentBeforeConvertAndPolling ==
    [][/\ \A k \in 1..Len(page'.calls) : ConvertSent(k) => page'.calls[k].consent
       /\ PollingStarted =>
             \E k \in CallIds : /\ page.calls[k].fn = "handleConvert"
                                /\ page.calls[k].consent
                                /\ page.calls[k].pc = "convert"
                                /\ page'.calls[k].pc = "done"]_vars

\* C34: in every reachable state a job's progress matches its status: Queued
\* has progress 0, Downloading a progress from 10 to 70, Converting progress 80.
C34_ProgressMatchesStatus ==
    \A j \in DOMAIN heap :
        Created(j) =>
            /\ heap[j].status = QUEUED => heap[j].progress = 0
            /\ heap[j].status = DOWNLOADING =>
                  P10 <= heap[j].progress /\ heap[j].progress <= P70
            /\ heap[j].status = CONVERTING => heap[j].progress = P80

\* C34 witness: a job whose first supervision has ended was converted again
\* and is Downloading with the progress its output has reported since.
C34_Witness ==
    \E j \in jobs :
        /\ heap[j].status = DOWNLOADING
        /\ heap[j].progress = ScaledProgress(Pct452.pct)
        /\ \E c, d \in ConversionsOf(j) :
              /\ c < d
              /\ conversions[c].finals # <<>>
              /\ conversions[d].proc = "running"
              /\ conversions[d].stderr = <<Pct452>>

\* The step is an event of the process supervising job a (diagnostic output,
\* exit, timeout), or a request for a: a convert that was accepted, a
\* download that was accepted, or a status, convert or download request that
\* was answered without anything else.
EventOfJob(a) ==
    \/ /\ Len(conversions') = Len(conversions) + 1
       /\ conversions'[Len(conversions')].jobId = a
    \/ \E c \in ConvIds : conversions'[c] # conversions[c] /\ conversions[c].jobId = a
    \/ /\ Len(downloads') = Len(downloads) + 1
       /\ downloads'[Len(downloads')].jobId = a
    \/ refusal' # refusal

\* C35: an output, exit or timeout event of the process supervising job a, and
\* a convert, status or download request for a, leave every field of every
\* other job b unchanged and neither add nor remove b's registry entry.
C35_JobsAreIndependent ==
    [][\A a, b \in DOMAIN heap :
          (a # b /\ EventOfJob(a)) =>
              /\ heap'[b] = heap[b]
              /\ (b \in jobs') = (b \in jobs)]_vars

\* C35 witness: job 1 has been through output, exit, timeout and an accepted
\* download while job 2, converted meanwhile, is still Converting at 80.
C35_Witness ==
    /\ jobs = {1, 2}
    /\ heap[1].status = ERROR
    /\ heap[2].status = CONVERTING
    /\ heap[2].progress = P80
    /\ \E c \in ConversionsOf(1) : conversions[c].finals = <<"success", "timeout">>
    /\ \E d \in DownloadIds : downloads[d].jobId = 1
    /\ \E c \in ConversionsOf(2) : conversions[c].proc = "running"
    /\ refusal.route = "status"

\* The step is the arrival of a poll's answer that ends polling: status
\* 'ready' or 'error', or a failed request.
PollEnds == \E q \in PollIds, answer \in {READY, ERROR, "failed"} : PollResponse(q, answer)

\* The step sends a status request.
StatusRequestSent == Len(page'.polls) > Len(page.polls)

\* C36: at most one polling timer is active at any time, and it is the one in
\* statusCheckInterval; a poll that observes 'ready' or 'error', or fails,
\* leaves no timer active; a status request is sent only by an active timer,
\* and a timer becomes active only by startStatusPolling.
C36_OnePollingTimer ==
    /\ [](page.pc = "loaded" =>
            /\ Cardinality(page.intervals) <= 1
            /\ page.intervals = {page.statusCheckInterval} \ {Null})
    /\ [][page.pc = "loaded" =>
            /\ PollEnds => page'.intervals = {} /\ page'.statusCheckInterval = Null
            /\ StatusRequestSent => page.intervals # {}
            /\ ~(page'.intervals \subseteq page.intervals) => PollingStarted]_vars

\* C36 witness: polling was started twice; one poll has observed 'ready' and
\* shown the download section while another poll is still in flight, and no
\* timer is active.
C36_Witness ==
    /\ page.pc = "loaded"
    /\ page.lastTimer = 2
    /\ page.intervals = {}
    /\ page.section = "download"
    /\ page.progressText = READY
    /\ \E q, r \in PollIds : page.polls[q].state = "done" /\ page.polls[r].state = "sent"

\* C38: after resetForm, the answer of a status poll that was in flight at
\* the reset changes neither the section that is shown nor the progress
\* display nor the current job.
C38_ResetDropsPollsInFlight ==
    [][page.pc = "loaded" =>
         \A q \in PollIds :
            (/\ page.polls[q].stale
             /\ page.polls[q].state = "sent"
             /\ page'.polls[q].state = "done")
            => /\ page'.section = page.section
               /\ page'.progressText = page.progressText
               /\ page'.currentJobId = page.currentJobId]_vars

\* C37: while an accepted download is still streaming, its artifact is on
\* disk and its job is in the registry: neither the deferred deletion of an
\* earlier download of the job nor a sweep removes them.
C37_StreamingDownloadKeepsArtifact ==
    \A d \in DownloadIds :
        downloads[d].state = "streaming" =>
            /\ downloads[d].filePath \in files
            /\ downloads[d].jobId \in jobs
====
